---------------------------- MODULE Spec2Model ----------------------------
(***************************************************************************)
(* Stored-schema discrepancy detection of the tree DDS                     *)
(* (packages/dds/tree/src/feature-libraries/modular-schema/                *)
(* discrepancies.ts): getAllowedContentIncompatibilities and its helpers   *)
(* trackFieldDiscrepancies and trackObjectNodeDiscrepancies.               *)
(*                                                                         *)
(* Encoding of the TypeScript values:                                      *)
(*   T | undefined        a sequence of length <= 1: <<>> is undefined,    *)
(*                        <<x>> is the value x                             *)
(*   Set<T>, Map<K, V>    sequences in insertion order (the order in which *)
(*                        JavaScript iterates them), without repeated      *)
(*                        elements / keys; a map entry is                  *)
(*                        [key |-> k, value |-> v]                         *)
(*   class instance       a record whose field class holds the name of the *)
(*                        constructor, which instanceof tests              *)
(***************************************************************************)
EXTENDS Integers, Sequences, FiniteSets, TLC

VARIABLES
    view,              \* first argument of the function being run
    stored,            \* second argument of the function being run
    keyOrRoot,         \* third argument of trackFieldDiscrepancies
    pc,                \* position in the function being run
    incompatibilities, \* the list being built, and returned at the end
    viewNodeKeys,      \* identifiers seen by the walk over view.nodeSchema
    vi,                \* iterator of the loop over view.nodeSchema
    si,                \* iterator of the loop over stored.nodeSchema
    error,             \* the message of the TypeError thrown, if any
    idleTaskList,      \* IdleTaskScheduler.idleTaskList
    taskHandle,        \* IdleTaskScheduler.taskHandle
    idleCallbacks,     \* the idle callbacks requested of the window and not yet run
    handles,           \* the number of idle callbacks requested so far
    timers,            \* the number of timeouts set and not yet expired
    invoked,           \* the tasks that were invoked, in the order of their invocation
    uncaught           \* the error thrown by the last callback or call, if any

\* The variables of the discrepancy detection and those of the idle task scheduler
discrepancyVars ==
    <<view, stored, keyOrRoot, pc, incompatibilities, viewNodeKeys, vi, si, error>>

schedulerVars == <<idleTaskList, taskHandle, idleCallbacks, handles, timers, invoked, uncaught>>

vars == <<discrepancyVars, schedulerVars>>

-----------------------------------------------------------------------------
(* Values *)

None == <<>>

Some(x) == <<x>>

Range(s) == {s[i] : i \in DOMAIN s}

\* The sequences over S without repetition, of length at most n.
InjSeqs(S, n) ==
    UNION {{s \in [1..k -> S] : \A i, j \in 1..k : i # j => s[i] # s[j]} : k \in 0..n}

\* The insertion-ordered maps from keys of K to values of V with at most n entries.
OrderedMaps(K, V, n) ==
    UNION {{[i \in 1..Len(ks) |-> [key |-> ks[i], value |-> vs[i]]] :
                vs \in [1..Len(ks) -> V]} : ks \in InjSeqs(K, n)}

\* Map.prototype.has
MapHas(m, k) == \E i \in DOMAIN m : m[i].key = k

\* Map.prototype.get of a key the map has
MapGet(m, k) == m[CHOOSE i \in DOMAIN m : m[i].key = k].value

MapKeys(m) == {m[i].key : i \in DOMAIN m}

-----------------------------------------------------------------------------
(* Bounds of the inputs *)

\* The largest allowed-type set given to the field comparator called alone.
MaxTypes == 2

\* The most fields of an object node given to the object comparator called alone.
MaxFields == 2

\* The value schemas of leaf nodes are 0..MaxValueSchema.
MaxValueSchema == 1

\* The largest number of invocations in progress at once
MaxInvocations == 2

\* The longest idleTaskList, the most idle callbacks requested, the most
\* timeouts pending
MaxTasks == 3

MaxHandles == 3

MaxTimers == 1

\* The tasks given to the scheduler
Tasks == {"t1", "t2"}

NodeIds == {"a", "b"}

TypeIds == {"a", "b", "c"}

\* The field keys of the object nodes of the schemas given to
\* getAllowedContentIncompatibilities.
NodeFieldKeys == {"f"}

FieldKindIdentifiers == {"optional", "required"}

ValueSchemas == 0..MaxValueSchema

\* TreeFieldStoredSchema: kind, and types (a set, or undefined)
FieldSchemasOver(ids, n) ==
    [kind : FieldKindIdentifiers,
     types : {None} \cup {Some(s) : s \in InjSeqs(ids, n)}]

\* The field schemas given to trackFieldDiscrepancies called alone.
FieldSchemas == FieldSchemasOver(TypeIds, MaxTypes)

\* The field keys and field schemas of the object nodes given to
\* trackObjectNodeDiscrepancies called alone, and these object nodes.
ObjectFieldKeys == {"f", "g", "h"}

ObjectFieldSchemas ==
    {[kind |-> "optional", types |-> None],
     [kind |-> "required", types |-> None],
     [kind |-> "optional", types |-> Some(<<"a">>)],
     [kind |-> "required", types |-> Some(<<"b">>)]}

ComparedObjectNodes ==
    [class : {"ObjectNodeStoredSchema"},
     objectNodeFields : OrderedMaps(ObjectFieldKeys, ObjectFieldSchemas, MaxFields)]

\* The field schemas of the nodes of the schemas given to
\* getAllowedContentIncompatibilities: any type allowed, or the type a required.
NodeFieldSchemas ==
    {[kind |-> "optional", types |-> None],
     [kind |-> "required", types |-> Some(<<"a">>)]}

\* The root field schemas of those schemas: also the one that allows no type.
RootFieldSchemas == NodeFieldSchemas \cup {[kind |-> "optional", types |-> Some(<<>>)]}

LeafNodeSchemas == [class : {"LeafNodeStoredSchema"}, leafValue : ValueSchemas]

MapNodeSchemas ==
    [class : {"MapNodeStoredSchema"},
     mapFields : NodeFieldSchemas]

ObjectNodeSchemas ==
    [class : {"ObjectNodeStoredSchema"},
     objectNodeFields : OrderedMaps(NodeFieldKeys, NodeFieldSchemas, Cardinality(NodeFieldKeys))]

\* A node schema that is none of the three variants.
ForeignNodeSchemas == {[class |-> "ForeignNodeStoredSchema"]}

\* The value undefined where a node schema is expected (a Map may hold it):
\* an instance of no class.
undefined == [class |-> "undefined"]

WellFormedNodeSchemas == LeafNodeSchemas \cup MapNodeSchemas \cup ObjectNodeSchemas

NodeSchemas == WellFormedNodeSchemas \cup ForeignNodeSchemas

\* Schemas whose nodeSchema may hold any value, undefined included.
LooseStoredSchemas ==
    [rootFieldSchema : NodeFieldSchemas,
     nodeSchema : OrderedMaps(NodeIds, NodeSchemas \cup {undefined}, Cardinality(NodeIds))]

\* The node schemas of the schemas shared by invocations in progress at once:
\* the leaves, the map of any type, the foreign variant.
SharedNodeSchemas ==
    LeafNodeSchemas \cup ForeignNodeSchemas
        \cup {m \in MapNodeSchemas : m.mapFields.types = None}

\* The schemas shared by invocations in progress at once.
SharedStoredSchemas ==
    [rootFieldSchema : NodeFieldSchemas,
     nodeSchema : OrderedMaps(NodeIds, SharedNodeSchemas, Cardinality(NodeIds))]

\* Schemas given in more than one iteration order: allowed-type sets of two
\* types in their two orders, an object node of two fields in two orders of its
\* keys and of the types of a field, a smaller object node, a leaf.
ReorderedFieldSchemas ==
    {[kind |-> "optional", types |-> None],
     [kind |-> "optional", types |-> Some(<<"a", "b">>)],
     [kind |-> "optional", types |-> Some(<<"b", "a">>)],
     [kind |-> "required", types |-> Some(<<"b">>)]}

ReorderedNodeSchemas ==
    {[class |-> "LeafNodeStoredSchema", leafValue |-> 0],
     [class |-> "ObjectNodeStoredSchema",
      objectNodeFields |->
          <<[key |-> "f", value |-> [kind |-> "optional", types |-> Some(<<"a", "b">>)]],
            [key |-> "g", value |-> [kind |-> "required", types |-> Some(<<"b">>)]]>>],
     [class |-> "ObjectNodeStoredSchema",
      objectNodeFields |->
          <<[key |-> "g", value |-> [kind |-> "required", types |-> Some(<<"b">>)]],
            [key |-> "f", value |-> [kind |-> "optional", types |-> Some(<<"b", "a">>)]]>>],
     [class |-> "ObjectNodeStoredSchema",
      objectNodeFields |->
          <<[key |-> "f", value |-> [kind |-> "required", types |-> Some(<<"b">>)]]>>]}

ReorderedStoredSchemas ==
    [rootFieldSchema : ReorderedFieldSchemas,
     nodeSchema : OrderedMaps(NodeIds, ReorderedNodeSchemas, Cardinality(NodeIds))]

\* The schemas of the calls followed to their end: the node schemas above and
\* the object nodes with a field.
FollowedStoredSchemas ==
    [rootFieldSchema : NodeFieldSchemas,
     nodeSchema : OrderedMaps(NodeIds,
                              SharedNodeSchemas
                                 \cup {o \in ObjectNodeSchemas :
                                          /\ Len(o.objectNodeFields) > 0
                                          /\ o.objectNodeFields[1].value.types # None},
                              Cardinality(NodeIds))]

TreeStoredSchemas ==
    [rootFieldSchema : RootFieldSchemas,
     nodeSchema : OrderedMaps(NodeIds, NodeSchemas, Cardinality(NodeIds))]

-----------------------------------------------------------------------------
(* idleTaskScheduler.ts: the scheduler as its constructor leaves it, in a window
   without a callback or a timer of it *)

SchedulerConstructed ==
    /\ idleTaskList = <<>>
    /\ taskHandle = 0
    /\ idleCallbacks = {}
    /\ handles = 0
    /\ timers = 0
    /\ invoked = <<>>
    /\ uncaught = <<>>

-----------------------------------------------------------------------------
(* discrepancies.ts *)

instanceof(node, class) == node.class = class

\* findSetDiscrepancies keeping what the two sets share instead of what the
\* other set lacks (a filter on b.has(value), without the negation).
findSetDiscrepancies_Intersection(a, b) ==
    IF a = None /\ b = None
    THEN <<<<>>, <<>>>>
    ELSE IF a # None /\ b # None
    THEN <<SelectSeq(a[1], LAMBDA value : value \in Range(b[1])),
           SelectSeq(b[1], LAMBDA value : value \in Range(a[1]))>>
    ELSE IF a # None
    THEN <<a[1], <<>>>>
    ELSE <<<<>>, b[1]>>

\* findSetDiscrepancies returning the elements of the only defined set on the
\* side of the undefined one.
findSetDiscrepancies_SidesSwapped(a, b) ==
    IF a = None /\ b = None
    THEN <<<<>>, <<>>>>
    ELSE IF a # None /\ b # None
    THEN <<SelectSeq(a[1], LAMBDA value : value \notin Range(b[1])),
           SelectSeq(b[1], LAMBDA value : value \notin Range(a[1]))>>
    ELSE IF a # None
    THEN <<<<>>, a[1]>>
    ELSE <<b[1], <<>>>>

\* findSetDiscrepancies comparing the two sets place by place: an element is a
\* difference unless the other set holds it at the same place of its iteration.
findSetDiscrepancies_PlaceByPlace(a, b) ==
    IF a = None /\ b = None
    THEN <<<<>>, <<>>>>
    ELSE IF a # None /\ b # None
    THEN <<SelectSeq(a[1], LAMBDA value :
               ~\E i \in DOMAIN a[1] \cap DOMAIN b[1] : a[1][i] = value /\ b[1][i] = value),
           SelectSeq(b[1], LAMBDA value :
               ~\E i \in DOMAIN a[1] \cap DOMAIN b[1] : a[1][i] = value /\ b[1][i] = value)>>
    ELSE IF a # None
    THEN <<a[1], <<>>>>
    ELSE <<<<>>, b[1]>>

\* findSetDiscrepancies, the closure of trackFieldDiscrepancies
findSetDiscrepancies(a, b) ==
    IF a = None /\ b = None
    THEN <<<<>>, <<>>>>
    ELSE IF a # None /\ b # None
    THEN <<SelectSeq(a[1], LAMBDA value : value \notin Range(b[1])),
           SelectSeq(b[1], LAMBDA value : value \notin Range(a[1]))>>
    ELSE IF a # None
    THEN <<a[1], <<>>>>
    ELSE <<<<>>, b[1]>>

\* The allowedTypes record pushed only when view allows a type stored lacks.
allowedTypesDifferences_ViewOnly(v, s, key) ==
    LET allowedTypesDiscrepancies == findSetDiscrepancies(v.types, s.types)
    IN  IF Len(allowedTypesDiscrepancies[1]) > 0
        THEN <<[identifier |-> key,
                mismatch |-> "allowedTypes",
                view |-> allowedTypesDiscrepancies[1],
                stored |-> allowedTypesDiscrepancies[2]]>>
        ELSE <<>>

allowedTypesDifferences(v, s, key) ==
    LET allowedTypesDiscrepancies == findSetDiscrepancies(v.types, s.types)
    IN  IF Len(allowedTypesDiscrepancies[1]) > 0 \/ Len(allowedTypesDiscrepancies[2]) > 0
        THEN <<[identifier |-> key,
                mismatch |-> "allowedTypes",
                view |-> allowedTypesDiscrepancies[1],
                stored |-> allowedTypesDiscrepancies[2]]>>
        ELSE <<>>

\* The field-kind check made only when the allowed types raised no record
\* (an else-if in place of the second if).
fieldKindDifferences_ElseIf(v, s, key) ==
    LET allowedTypesDiscrepancies == findSetDiscrepancies(v.types, s.types)
    IN  IF Len(allowedTypesDiscrepancies[1]) = 0 /\ Len(allowedTypesDiscrepancies[2]) = 0
              /\ v.kind # s.kind
        THEN <<[identifier |-> key,
                mismatch |-> "fieldKind",
                view |-> Some(v.kind),
                stored |-> Some(s.kind)]>>
        ELSE <<>>

fieldKindDifferences(v, s, key) ==
    IF v.kind # s.kind
    THEN <<[identifier |-> key,
            mismatch |-> "fieldKind",
            view |-> Some(v.kind),
            stored |-> Some(s.kind)]>>
    ELSE <<>>

\* trackFieldDiscrepancies with its two checks in the other order: the field
\* kind first, the allowed types second.
trackFieldDiscrepancies_KindFirst(v, s, key) ==
    fieldKindDifferences(v, s, key) \o allowedTypesDifferences(v, s, key)

trackFieldDiscrepancies(v, s, key) ==
    allowedTypesDifferences(v, s, key) \o fieldKindDifferences(v, s, key)

\* The first loop of trackObjectNodeDiscrepancies, from its i-th entry on.
RECURSIVE viewFieldsPass(_, _, _)
viewFieldsPass(v, s, i) ==
    IF i > Len(v.objectNodeFields)
    THEN <<>>
    ELSE LET fieldKey == v.objectNodeFields[i].key
             fieldStoredSchema == v.objectNodeFields[i].value
         IN  (IF ~MapHas(s.objectNodeFields, fieldKey)
              THEN <<[identifier |-> Some(fieldKey),
                      mismatch |-> "fieldKind",
                      view |-> Some(fieldStoredSchema.kind),
                      stored |-> None]>>
              ELSE trackFieldDiscrepancies(MapGet(v.objectNodeFields, fieldKey),
                                           MapGet(s.objectNodeFields, fieldKey),
                                           Some(fieldKey)))
             \o viewFieldsPass(v, s, i + 1)

\* The second loop of trackObjectNodeDiscrepancies, from its i-th entry on.
RECURSIVE storedFieldsPass(_, _, _)
storedFieldsPass(s, viewFieldKeys, i) ==
    IF i > Len(s.objectNodeFields)
    THEN <<>>
    ELSE LET fieldKey == s.objectNodeFields[i].key
             fieldStoredSchema == s.objectNodeFields[i].value
         IN  (IF fieldKey \in viewFieldKeys
              THEN <<>>
              ELSE <<[identifier |-> Some(fieldKey),
                      mismatch |-> "fieldKind",
                      view |-> None,
                      stored |-> Some(fieldStoredSchema.kind)]>>)
             \o storedFieldsPass(s, viewFieldKeys, i + 1)

\* trackObjectNodeDiscrepancies without viewFieldKeys.add(fieldKey): the second
\* loop finds no key of view in the set.
trackObjectNodeDiscrepancies_NoAdd(v, s) ==
    viewFieldsPass(v, s, 1) \o storedFieldsPass(s, {}, 1)

\* trackObjectNodeDiscrepancies with its two loops in the other order: the
\* stored-only keys first.
trackObjectNodeDiscrepancies_StoredFirst(v, s) ==
    storedFieldsPass(s, MapKeys(v.objectNodeFields), 1) \o viewFieldsPass(v, s, 1)

trackObjectNodeDiscrepancies(v, s) ==
    viewFieldsPass(v, s, 1) \o storedFieldsPass(s, MapKeys(v.objectNodeFields), 1)

\* The nodeKind record with the two kinds on the wrong sides.
NodeKindIncompatibility_Swapped(key, viewKind, storedKind) ==
    [identifier |-> Some(key), mismatch |-> "nodeKind", view |-> storedKind, stored |-> viewKind]

NodeKindIncompatibility(key, viewKind, storedKind) ==
    [identifier |-> Some(key), mismatch |-> "nodeKind", view |-> viewKind, stored |-> storedKind]

\* throwUnsupportedNodeType: the message of the TypeError
throwUnsupportedNodeType(type) == <<"Unsupported node stored schema type", type>>

\* The outcome of one pass of the loop body: the records pushed, and the error thrown
Pushed(records) == [push |-> records, throw |-> None]

Thrown(type) == [push |-> <<>>, throw |-> Some(throwUnsupportedNodeType(type))]

\* An assertion of core-utils that failed: the error it throws.
AssertionFailed(code) == [push |-> <<>>, throw |-> Some(<<"assert", code>>)]

\* Reading .constructor of undefined: the TypeError of the runtime.
PropertyOfUndefined(property) ==
    [push |-> <<>>, throw |-> Some(<<"Cannot read properties of undefined", property>>)]

\* The differences of two object nodes pushed as they are (spread into the
\* list as the records of two map nodes are), without the fields record.
nodeFieldsDifferences_Spread(key, differences) == differences

\* The fields record pushed whatever the differences are (no test of
\* differences.length).
nodeFieldsDifferences_Always(key, differences) ==
    <<[identifier |-> Some(key), mismatch |-> "fields", differences |-> differences]>>

\* The fields record pushed for two object nodes, if their fields differ.
nodeFieldsDifferences(key, differences) ==
    IF Len(differences) > 0
    THEN <<[identifier |-> Some(key), mismatch |-> "fields", differences |-> differences]>>
    ELSE <<>>

\* The comparison of two map nodes without the identifier of the node (the
\* third argument of trackFieldDiscrepancies left out).
mapNodeDifferences_NoKey(key, viewNodeSchema, storedNodeSchema) ==
    trackFieldDiscrepancies(viewNodeSchema.mapFields, storedNodeSchema.mapFields, None)

\* The comparison of two map nodes with its records wrapped in a fields record,
\* as the branch of the object nodes wraps them.
mapNodeDifferences_Wrapped(key, viewNodeSchema, storedNodeSchema) ==
    LET differences == trackFieldDiscrepancies(
                           viewNodeSchema.mapFields, storedNodeSchema.mapFields, Some(key))
    IN  IF Len(differences) > 0
        THEN <<[identifier |-> Some(key), mismatch |-> "fields", differences |-> differences]>>
        ELSE <<>>

\* The records pushed for two map nodes.
mapNodeDifferences(key, viewNodeSchema, storedNodeSchema) ==
    trackFieldDiscrepancies(viewNodeSchema.mapFields, storedNodeSchema.mapFields, Some(key))

\* The valueSchema record pushed without the comparison of the leaf values.
leafNodeDifferences_Always(key, viewNodeSchema, storedNodeSchema) ==
    <<[identifier |-> Some(key),
       mismatch |-> "valueSchema",
       view |-> Some(viewNodeSchema.leafValue),
       stored |-> Some(storedNodeSchema.leafValue)]>>

\* The valueSchema record with the leaf values on the wrong sides.
leafNodeDifferences_SidesSwapped(key, viewNodeSchema, storedNodeSchema) ==
    IF viewNodeSchema.leafValue # storedNodeSchema.leafValue
    THEN <<[identifier |-> Some(key),
            mismatch |-> "valueSchema",
            view |-> Some(storedNodeSchema.leafValue),
            stored |-> Some(viewNodeSchema.leafValue)]>>
    ELSE <<>>

\* The record pushed for two leaf nodes, if their values differ.
leafNodeDifferences(key, viewNodeSchema, storedNodeSchema) ==
    IF viewNodeSchema.leafValue # storedNodeSchema.leafValue
    THEN <<[identifier |-> Some(key),
            mismatch |-> "valueSchema",
            view |-> Some(viewNodeSchema.leafValue),
            stored |-> Some(storedNodeSchema.leafValue)]>>
    ELSE <<>>

\* The branch of a view entry that is an ObjectNodeStoredSchema.
viewObjectNodeIn(storedSchema, key, viewNodeSchema) ==
    IF ~MapHas(storedSchema.nodeSchema, key)
    THEN Pushed(<<NodeKindIncompatibility(key, Some("object"), None)>>)
    ELSE LET storedNodeSchema == MapGet(storedSchema.nodeSchema, key)
         IN  IF storedNodeSchema = undefined
             THEN AssertionFailed("0x9be")
             ELSE IF instanceof(storedNodeSchema, "MapNodeStoredSchema")
             THEN Pushed(<<NodeKindIncompatibility(key, Some("object"), Some("map"))>>)
             ELSE IF instanceof(storedNodeSchema, "LeafNodeStoredSchema")
             THEN Pushed(<<NodeKindIncompatibility(key, Some("object"), Some("leaf"))>>)
             ELSE IF instanceof(storedNodeSchema, "ObjectNodeStoredSchema")
             THEN Pushed(nodeFieldsDifferences(
                            key, trackObjectNodeDiscrepancies(viewNodeSchema, storedNodeSchema)))
             ELSE Thrown(storedNodeSchema.class)

\* The same branch against the stored schema of the call.
viewObjectNode(key, viewNodeSchema) == viewObjectNodeIn(stored, key, viewNodeSchema)

\* The branch of a view entry that is a MapNodeStoredSchema.
viewMapNodeIn(storedSchema, key, viewNodeSchema) ==
    IF ~MapHas(storedSchema.nodeSchema, key)
    THEN Pushed(<<NodeKindIncompatibility(key, Some("map"), None)>>)
    ELSE LET storedNodeSchema == MapGet(storedSchema.nodeSchema, key)
         IN  IF storedNodeSchema = undefined
             THEN AssertionFailed("0x9bf")
             ELSE IF instanceof(storedNodeSchema, "ObjectNodeStoredSchema")
             THEN Pushed(<<NodeKindIncompatibility(key, Some("map"), Some("object"))>>)
             ELSE IF instanceof(storedNodeSchema, "LeafNodeStoredSchema")
             THEN Pushed(<<NodeKindIncompatibility(key, Some("map"), Some("leaf"))>>)
             ELSE IF instanceof(storedNodeSchema, "MapNodeStoredSchema")
             THEN Pushed(mapNodeDifferences(key, viewNodeSchema, storedNodeSchema))
             ELSE Thrown(storedNodeSchema.class)

\* The same branch against the stored schema of the call.
viewMapNode(key, viewNodeSchema) == viewMapNodeIn(stored, key, viewNodeSchema)

\* The branch of a view entry that is a LeafNodeStoredSchema.
viewLeafNodeIn(storedSchema, key, viewNodeSchema) ==
    IF ~MapHas(storedSchema.nodeSchema, key)
    THEN Pushed(<<NodeKindIncompatibility(key, Some("leaf"), None)>>)
    ELSE LET storedNodeSchema == MapGet(storedSchema.nodeSchema, key)
         IN  IF storedNodeSchema = undefined
             THEN AssertionFailed("0x9c0")
             ELSE IF instanceof(storedNodeSchema, "MapNodeStoredSchema")
             THEN Pushed(<<NodeKindIncompatibility(key, Some("leaf"), Some("map"))>>)
             ELSE IF instanceof(storedNodeSchema, "ObjectNodeStoredSchema")
             THEN Pushed(<<NodeKindIncompatibility(key, Some("leaf"), Some("object"))>>)
             ELSE IF instanceof(storedNodeSchema, "LeafNodeStoredSchema")
             THEN Pushed(leafNodeDifferences(key, viewNodeSchema, storedNodeSchema))
             ELSE Thrown(storedNodeSchema.class)

\* The same branch against the stored schema of the call.
viewLeafNode(key, viewNodeSchema) == viewLeafNodeIn(stored, key, viewNodeSchema)

\* The loop body without the branch of the leaf nodes.
viewNodeBody_NoLeafBranch(key, viewNodeSchema) ==
    IF instanceof(viewNodeSchema, "ObjectNodeStoredSchema")
    THEN viewObjectNode(key, viewNodeSchema)
    ELSE IF instanceof(viewNodeSchema, "MapNodeStoredSchema")
    THEN viewMapNode(key, viewNodeSchema)
    ELSE IF viewNodeSchema = undefined
    THEN PropertyOfUndefined("constructor")
    ELSE Thrown(viewNodeSchema.class)

\* The body of the loop over view.nodeSchema, after viewNodeKeys.add(key), for
\* a call whose second argument is storedSchema.
viewNodeBodyIn(storedSchema, key, viewNodeSchema) ==
    IF instanceof(viewNodeSchema, "ObjectNodeStoredSchema")
    THEN viewObjectNodeIn(storedSchema, key, viewNodeSchema)
    ELSE IF instanceof(viewNodeSchema, "MapNodeStoredSchema")
    THEN viewMapNodeIn(storedSchema, key, viewNodeSchema)
    ELSE IF instanceof(viewNodeSchema, "LeafNodeStoredSchema")
    THEN viewLeafNodeIn(storedSchema, key, viewNodeSchema)
    ELSE IF viewNodeSchema = undefined
    THEN PropertyOfUndefined("constructor")
    ELSE Thrown(viewNodeSchema.class)

\* The body of the loop over view.nodeSchema, after viewNodeKeys.add(key).
viewNodeBody(key, viewNodeSchema) == viewNodeBodyIn(stored, key, viewNodeSchema)

\* The second loop testing for the object variant only (every other entry a map).
residualKind_ObjectOrMap(storedNodeSchema) ==
    IF instanceof(storedNodeSchema, "ObjectNodeStoredSchema")
    THEN "object"
    ELSE "map"

\* The kind the second loop reports for a stored entry.
residualKind(storedNodeSchema) ==
    IF instanceof(storedNodeSchema, "MapNodeStoredSchema")
    THEN "map"
    ELSE IF instanceof(storedNodeSchema, "ObjectNodeStoredSchema")
    THEN "object"
    ELSE "leaf"

\* The second loop without its test of viewNodeKeys.
residualBody_NoSeenTest(key, storedNodeSchema) ==
    <<[identifier |-> Some(key), mismatch |-> "nodeKind", view |-> None,
       stored |-> Some(residualKind(storedNodeSchema))]>>

\* The second loop pushing its record only when the first loop saw no
\* identifier at all (a test of the size of viewNodeKeys for the test of key).
residualBodyGiven_NoneSeen(seen, key, storedNodeSchema) ==
    IF seen = {}
    THEN <<NodeKindIncompatibility(key, None, Some(residualKind(storedNodeSchema)))>>
    ELSE <<>>

\* The body of the loop over stored.nodeSchema for a call whose set viewNodeKeys
\* is seen: the records it pushes.
residualBodyGiven(seen, key, storedNodeSchema) ==
    IF key \notin seen
    THEN <<NodeKindIncompatibility(key, None, Some(residualKind(storedNodeSchema)))>>
    ELSE <<>>

\* The body of the loop over stored.nodeSchema: the records it pushes.
residualBody(key, storedNodeSchema) == residualBodyGiven(viewNodeKeys, key, storedNodeSchema)

\* The loop over v.nodeSchema run from its i-th entry to its end or to the
\* first throw.
RECURSIVE viewNodesLoop(_, _, _)
viewNodesLoop(v, s, i) ==
    IF i > Len(v.nodeSchema)
    THEN Pushed(<<>>)
    ELSE LET outcome == viewNodeBodyIn(s, v.nodeSchema[i].key, v.nodeSchema[i].value)
         IN  IF outcome.throw # None
             THEN outcome
             ELSE LET rest == viewNodesLoop(v, s, i + 1)
                  IN  IF rest.throw # None
                      THEN rest
                      ELSE Pushed(outcome.push \o rest.push)

\* The loop over s.nodeSchema run from its i-th entry to its end.
RECURSIVE storedNodesLoop(_, _, _)
storedNodesLoop(v, s, i) ==
    IF i > Len(s.nodeSchema)
    THEN <<>>
    ELSE residualBodyGiven(MapKeys(v.nodeSchema), s.nodeSchema[i].key, s.nodeSchema[i].value)
            \o storedNodesLoop(v, s, i + 1)

\* getAllowedContentIncompatibilities(v, s) run from its call to its return or
\* its throw: the list returned, or the error thrown.
getAllowedContentIncompatibilities(v, s) ==
    LET walk == viewNodesLoop(v, s, 1)
    IN  IF walk.throw # None
        THEN walk
        ELSE Pushed(trackFieldDiscrepancies(v.rootFieldSchema, s.rootFieldSchema, None)
                       \o walk.push
                       \o storedNodesLoop(v, s, 1))

-----------------------------------------------------------------------------
(* getAllowedContentIncompatibilities(view, stored), one step per loop pass *)

Init ==
    /\ view \in TreeStoredSchemas
    /\ stored \in TreeStoredSchemas
    /\ keyOrRoot = None
    /\ pc = "root"
    /\ incompatibilities = <<>>
    /\ viewNodeKeys = {}
    /\ vi = 1
    /\ si = 1
    /\ error = None
    /\ SchedulerConstructed

\* The root comparison made only when view has node schemas.
CompareRoot_OnlyWithNodes ==
    /\ pc = "root"
    /\ incompatibilities' =
          IF Len(view.nodeSchema) > 0
          THEN incompatibilities \o trackFieldDiscrepancies(view.rootFieldSchema,
                                                            stored.rootFieldSchema, None)
          ELSE incompatibilities
    /\ pc' = "view"
    /\ UNCHANGED <<schedulerVars, view, stored, keyOrRoot, viewNodeKeys, vi, si, error>>

\* incompatibilities.push(...trackFieldDiscrepancies(view.rootFieldSchema, stored.rootFieldSchema))
CompareRoot ==
    /\ pc = "root"
    /\ incompatibilities' =
          incompatibilities \o trackFieldDiscrepancies(view.rootFieldSchema,
                                                       stored.rootFieldSchema, None)
    /\ pc' = "view"
    /\ UNCHANGED <<schedulerVars, view, stored, keyOrRoot, viewNodeKeys, vi, si, error>>

\* The walk removing from stored.nodeSchema the entry it has compared, so as to
\* leave to the second loop the entries view lacks.
WalkViewNode_DeletesCompared ==
    /\ pc = "view"
    /\ vi <= Len(view.nodeSchema)
    /\ LET key == view.nodeSchema[vi].key
           outcome == viewNodeBody(key, view.nodeSchema[vi].value)
       IN  /\ viewNodeKeys' = viewNodeKeys \cup {key}
           /\ incompatibilities' = incompatibilities \o outcome.push
           /\ error' = outcome.throw
           /\ pc' = IF outcome.throw = None THEN "view" ELSE "thrown"
           /\ vi' = vi + 1
           /\ stored' = [stored EXCEPT !.nodeSchema = SelectSeq(@, LAMBDA entry : entry.key # key)]
    /\ UNCHANGED <<schedulerVars, view, keyOrRoot, si>>

\* The first loop staying on an entry for which it pushed no record.
WalkViewNode_StaysOnEqualEntry ==
    /\ pc = "view"
    /\ vi <= Len(view.nodeSchema)
    /\ LET key == view.nodeSchema[vi].key
           outcome == viewNodeBody(key, view.nodeSchema[vi].value)
       IN  /\ viewNodeKeys' = viewNodeKeys \cup {key}
           /\ incompatibilities' = incompatibilities \o outcome.push
           /\ error' = outcome.throw
           /\ pc' = IF outcome.throw = None THEN "view" ELSE "thrown"
           /\ vi' = IF outcome.throw = None /\ outcome.push = <<>> THEN vi ELSE vi + 1
    /\ UNCHANGED <<schedulerVars, view, stored, keyOrRoot, si>>

\* The first loop without viewNodeKeys.add(key).
WalkViewNode_NoAdd ==
    /\ pc = "view"
    /\ vi <= Len(view.nodeSchema)
    /\ LET key == view.nodeSchema[vi].key
           outcome == viewNodeBody(key, view.nodeSchema[vi].value)
       IN  /\ incompatibilities' = incompatibilities \o outcome.push
           /\ error' = outcome.throw
           /\ pc' = IF outcome.throw = None THEN "view" ELSE "thrown"
           /\ vi' = vi + 1
    /\ UNCHANGED <<schedulerVars, view, stored, keyOrRoot, si, viewNodeKeys>>

\* One pass of: for (const [key, viewNodeSchema] of view.nodeSchema)
WalkViewNode ==
    /\ pc = "view"
    /\ vi <= Len(view.nodeSchema)
    /\ LET key == view.nodeSchema[vi].key
           outcome == viewNodeBody(key, view.nodeSchema[vi].value)
       IN  /\ viewNodeKeys' = viewNodeKeys \cup {key}
           /\ incompatibilities' = incompatibilities \o outcome.push
           /\ error' = outcome.throw
           /\ pc' = IF outcome.throw = None THEN "view" ELSE "thrown"
           /\ vi' = vi + 1
    /\ UNCHANGED <<schedulerVars, view, stored, keyOrRoot, si>>

\* The loop over view.nodeSchema is exhausted.
EndWalk ==
    /\ pc = "view"
    /\ vi > Len(view.nodeSchema)
    /\ pc' = "stored"
    /\ UNCHANGED <<schedulerVars, view, stored, keyOrRoot, incompatibilities, viewNodeKeys, vi, si, error>>

\* The second loop putting its record at the head of the list (unshift for push).
ResidualNode_Unshift ==
    /\ pc = "stored"
    /\ si <= Len(stored.nodeSchema)
    /\ incompatibilities' =
          residualBody(stored.nodeSchema[si].key, stored.nodeSchema[si].value)
             \o incompatibilities
    /\ si' = si + 1
    /\ UNCHANGED <<schedulerVars, view, stored, keyOrRoot, pc, viewNodeKeys, vi, error>>

\* One pass of: for (const [key, storedNodeSchema] of stored.nodeSchema)
ResidualNode ==
    /\ pc = "stored"
    /\ si <= Len(stored.nodeSchema)
    /\ incompatibilities' =
          incompatibilities \o residualBody(stored.nodeSchema[si].key,
                                            stored.nodeSchema[si].value)
    /\ si' = si + 1
    /\ UNCHANGED <<schedulerVars, view, stored, keyOrRoot, pc, viewNodeKeys, vi, error>>

\* return incompatibilities
Return ==
    /\ pc = "stored"
    /\ si > Len(stored.nodeSchema)
    /\ pc' = "done"
    /\ UNCHANGED <<schedulerVars, view, stored, keyOrRoot, incompatibilities, viewNodeKeys, vi, si, error>>

Next == CompareRoot \/ WalkViewNode \/ EndWalk \/ ResidualNode \/ Return

Spec == Init /\ [][Next]_vars

\* The call runs on: the function is synchronous, a step that can be taken is
\* taken.
FairInit ==
    /\ view \in FollowedStoredSchemas
    /\ stored \in FollowedStoredSchemas
    /\ keyOrRoot = None
    /\ pc = "root"
    /\ incompatibilities = <<>>
    /\ viewNodeKeys = {}
    /\ vi = 1
    /\ si = 1
    /\ error = None
    /\ SchedulerConstructed

FairSpec == FairInit /\ [][Next]_vars /\ WF_vars(Next)

-----------------------------------------------------------------------------
(* getAllowedContentIncompatibilities on schemas that may hold undefined *)

LooseInit ==
    /\ view \in LooseStoredSchemas
    /\ stored \in LooseStoredSchemas
    /\ keyOrRoot = None
    /\ pc = "root"
    /\ incompatibilities = <<>>
    /\ viewNodeKeys = {}
    /\ vi = 1
    /\ si = 1
    /\ error = None
    /\ SchedulerConstructed

LooseSpec == LooseInit /\ [][Next]_vars

-----------------------------------------------------------------------------
(* Invocations of getAllowedContentIncompatibilities in progress at once on   *)
(* two shared schemas. Each invocation has its own incompatibilities and      *)
(* viewNodeKeys (the const declarations of the function body) and its own      *)
(* place in the loops: pc, incompatibilities, viewNodeKeys, vi, si and error   *)
(* are here functions of the invocation. The invocations take turns between   *)
(* loop passes.                                                               *)

Invocations == 1..MaxInvocations

\* The arguments of invocation i: the odd invocations are called with
\* (view, stored), the even ones with (stored, view).
ViewOf(i) == IF i % 2 = 1 THEN view ELSE stored

StoredOf(i) == IF i % 2 = 1 THEN stored ELSE view

ConcInit ==
    /\ view \in SharedStoredSchemas
    /\ stored \in SharedStoredSchemas
    /\ keyOrRoot = None
    /\ pc = [i \in Invocations |-> "root"]
    /\ incompatibilities = [i \in Invocations |-> <<>>]
    /\ viewNodeKeys = [i \in Invocations |-> {}]
    /\ vi = [i \in Invocations |-> 1]
    /\ si = [i \in Invocations |-> 1]
    /\ error = [i \in Invocations |-> None]
    /\ SchedulerConstructed

\* Invocation i compares the root field schemas.
ConcCompareRoot(i) ==
    /\ pc[i] = "root"
    /\ incompatibilities' =
          [incompatibilities EXCEPT ![i] =
              @ \o trackFieldDiscrepancies(ViewOf(i).rootFieldSchema,
                                           StoredOf(i).rootFieldSchema, None)]
    /\ pc' = [pc EXCEPT ![i] = "view"]
    /\ UNCHANGED <<schedulerVars, view, stored, keyOrRoot, viewNodeKeys, vi, si, error>>

\* The first loop with viewNodeKeys declared outside of the function: one set
\* for all the invocations.
ConcWalkViewNode_OneSetForAll(i) ==
    /\ pc[i] = "view"
    /\ vi[i] <= Len(ViewOf(i).nodeSchema)
    /\ LET key == ViewOf(i).nodeSchema[vi[i]].key
           outcome == viewNodeBodyIn(StoredOf(i), key, ViewOf(i).nodeSchema[vi[i]].value)
       IN  /\ viewNodeKeys' = [j \in Invocations |-> viewNodeKeys[j] \cup {key}]
           /\ incompatibilities' = [incompatibilities EXCEPT ![i] = @ \o outcome.push]
           /\ error' = [error EXCEPT ![i] = outcome.throw]
           /\ pc' = [pc EXCEPT ![i] = IF outcome.throw = None THEN "view" ELSE "thrown"]
           /\ vi' = [vi EXCEPT ![i] = @ + 1]
    /\ UNCHANGED <<schedulerVars, view, stored, keyOrRoot, si>>

\* Invocation i makes one pass of its loop over view.nodeSchema.
ConcWalkViewNode(i) ==
    /\ pc[i] = "view"
    /\ vi[i] <= Len(ViewOf(i).nodeSchema)
    /\ LET key == ViewOf(i).nodeSchema[vi[i]].key
           outcome == viewNodeBodyIn(StoredOf(i), key, ViewOf(i).nodeSchema[vi[i]].value)
       IN  /\ viewNodeKeys' = [viewNodeKeys EXCEPT ![i] = @ \cup {key}]
           /\ incompatibilities' = [incompatibilities EXCEPT ![i] = @ \o outcome.push]
           /\ error' = [error EXCEPT ![i] = outcome.throw]
           /\ pc' = [pc EXCEPT ![i] = IF outcome.throw = None THEN "view" ELSE "thrown"]
           /\ vi' = [vi EXCEPT ![i] = @ + 1]
    /\ UNCHANGED <<schedulerVars, view, stored, keyOrRoot, si>>

\* The loop of invocation i over view.nodeSchema is exhausted.
ConcEndWalk(i) ==
    /\ pc[i] = "view"
    /\ vi[i] > Len(ViewOf(i).nodeSchema)
    /\ pc' = [pc EXCEPT ![i] = "stored"]
    /\ UNCHANGED <<schedulerVars, view, stored, keyOrRoot, incompatibilities, viewNodeKeys, vi, si, error>>

\* Invocation i makes one pass of its loop over stored.nodeSchema.
ConcResidualNode(i) ==
    /\ pc[i] = "stored"
    /\ si[i] <= Len(StoredOf(i).nodeSchema)
    /\ incompatibilities' =
          [incompatibilities EXCEPT ![i] =
              @ \o residualBodyGiven(viewNodeKeys[i],
                                     StoredOf(i).nodeSchema[si[i]].key,
                                     StoredOf(i).nodeSchema[si[i]].value)]
    /\ si' = [si EXCEPT ![i] = @ + 1]
    /\ UNCHANGED <<schedulerVars, view, stored, keyOrRoot, pc, viewNodeKeys, vi, error>>

\* Invocation i returns its list.
ConcReturn(i) ==
    /\ pc[i] = "stored"
    /\ si[i] > Len(StoredOf(i).nodeSchema)
    /\ pc' = [pc EXCEPT ![i] = "done"]
    /\ UNCHANGED <<schedulerVars, view, stored, keyOrRoot, incompatibilities, viewNodeKeys, vi, si, error>>

ConcNext ==
    \E i \in Invocations :
        \/ ConcCompareRoot(i)
        \/ ConcWalkViewNode(i)
        \/ ConcEndWalk(i)
        \/ ConcResidualNode(i)
        \/ ConcReturn(i)

ConcSpec == ConcInit /\ [][ConcNext]_vars

-----------------------------------------------------------------------------
(* getAllowedContentIncompatibilities on schemas given in several iteration   *)
(* orders                                                                     *)

ReorderedInit ==
    /\ view \in ReorderedStoredSchemas
    /\ stored \in ReorderedStoredSchemas
    /\ keyOrRoot = None
    /\ pc = "root"
    /\ incompatibilities = <<>>
    /\ viewNodeKeys = {}
    /\ vi = 1
    /\ si = 1
    /\ error = None
    /\ SchedulerConstructed

ReorderedSpec == ReorderedInit /\ [][Next]_vars

-----------------------------------------------------------------------------
(* trackFieldDiscrepancies(view, stored, keyOrRoot) called alone *)

FieldInit ==
    /\ view \in FieldSchemas
    /\ stored \in FieldSchemas
    /\ keyOrRoot \in {None, Some("a")}
    /\ pc = "field"
    /\ incompatibilities = <<>>
    /\ viewNodeKeys = {}
    /\ vi = 1
    /\ si = 1
    /\ error = None
    /\ SchedulerConstructed

CallTrackField ==
    /\ pc = "field"
    /\ incompatibilities' = trackFieldDiscrepancies(view, stored, keyOrRoot)
    /\ pc' = "fieldDone"
    /\ UNCHANGED <<schedulerVars, view, stored, keyOrRoot, viewNodeKeys, vi, si, error>>

FieldNext == CallTrackField

FieldSpec == FieldInit /\ [][FieldNext]_vars

-----------------------------------------------------------------------------
(* trackObjectNodeDiscrepancies(view, stored) called alone *)

ObjectInit ==
    /\ view \in ComparedObjectNodes
    /\ stored \in ComparedObjectNodes
    /\ keyOrRoot = None
    /\ pc = "object"
    /\ incompatibilities = <<>>
    /\ viewNodeKeys = {}
    /\ vi = 1
    /\ si = 1
    /\ error = None
    /\ SchedulerConstructed

CallTrackObjectNode ==
    /\ pc = "object"
    /\ incompatibilities' = trackObjectNodeDiscrepancies(view, stored)
    /\ pc' = "objectDone"
    /\ UNCHANGED <<schedulerVars, view, stored, keyOrRoot, viewNodeKeys, vi, si, error>>

ObjectNext == CallTrackObjectNode

ObjectSpec == ObjectInit /\ [][ObjectNext]_vars

-----------------------------------------------------------------------------
(* IdleTaskScheduler (idleTaskScheduler.ts) in a window: the calls of its     *)
(* three public methods, and the window running the idle callbacks and the    *)
(* timeouts it was asked for. A method runs to its end in one step.           *)

\* The discrepancy detection is not running.
NoCall ==
    /\ view = None
    /\ stored = None
    /\ keyOrRoot = None
    /\ pc = "scheduler"
    /\ incompatibilities = <<>>
    /\ viewNodeKeys = {}
    /\ vi = 1
    /\ si = 1
    /\ error = None

SchedulerInit == SchedulerConstructed /\ NoCall

\* The entry requestIdleCallback(this.runTaskQueue, ...) leaves in the window,
\* handle being the number it returns.
RunTaskQueueCallback(handle) == [handle |-> handle, callback |-> "runTaskQueue"]

\* enqueueTask(task)
EnqueueTask(task) ==
    /\ Len(idleTaskList) < MaxTasks
    /\ handles < MaxHandles
    /\ idleTaskList' = Append(idleTaskList, [handle |-> task])
    /\ IF taskHandle # 0
       THEN /\ handles' = handles + 1
            /\ taskHandle' = handles + 1
            /\ idleCallbacks' = idleCallbacks \cup {RunTaskQueueCallback(handles + 1)}
       ELSE UNCHANGED <<handles, taskHandle, idleCallbacks>>
    /\ uncaught' = None
    /\ UNCHANGED <<discrepancyVars, timers, invoked>>

\* runTaskQueue(deadline) called on the scheduler; deadline.timeRemaining() is
\* positive for the first passes tests of the loop, and deadline.didTimeout is
\* didTimeout. The statement task?.handle; reads the property and calls nothing.
RunTaskQueue(passes, didTimeout) ==
    /\ handles < MaxHandles
    /\ LET removed == IF didTimeout \/ passes > Len(idleTaskList)
                      THEN Len(idleTaskList)
                      ELSE passes
           remaining == SubSeq(idleTaskList, removed + 1, Len(idleTaskList))
       IN  /\ idleTaskList' = remaining
           /\ IF Len(remaining) > 0
              THEN /\ handles' = handles + 1
                   /\ taskHandle' = handles + 1
                   /\ idleCallbacks' = idleCallbacks \cup {RunTaskQueueCallback(handles + 1)}
              ELSE /\ taskHandle' = 0
                   /\ UNCHANGED <<handles, idleCallbacks>>
    /\ uncaught' = None
    /\ UNCHANGED <<discrepancyVars, timers, invoked>>

\* scheduleIdleTask(callback, timeout, props), requestIdleCallback being in
\* window or not
ScheduleIdleTask(callback, inWindow) ==
    /\ IF inWindow
       THEN /\ Len(idleTaskList) < MaxTasks
            /\ handles + 1 < MaxHandles
            /\ idleTaskList' = Append(idleTaskList, [handle |-> callback])
            /\ LET requested == IF taskHandle # 0 THEN handles + 1 ELSE handles
               IN  /\ taskHandle' = IF taskHandle # 0 THEN requested ELSE taskHandle
                   /\ handles' = requested + 1
                   /\ idleCallbacks' =
                         idleCallbacks
                            \cup (IF taskHandle # 0 THEN {RunTaskQueueCallback(requested)} ELSE {})
                            \cup {[handle |-> requested + 1, callback |-> callback]}
            /\ UNCHANGED timers
       ELSE /\ timers < MaxTimers
            /\ timers' = timers + 1
            /\ UNCHANGED <<idleTaskList, taskHandle, handles, idleCallbacks>>
    /\ uncaught' = None
    /\ UNCHANGED <<discrepancyVars, invoked>>

\* The window runs an idle callback. runTaskQueue was handed over without its
\* scheduler: it runs with this undefined and throws on this.idleTaskList.
IdleCallbackRuns(entry) ==
    /\ entry \in idleCallbacks
    /\ idleCallbacks' = idleCallbacks \ {entry}
    /\ IF entry.callback = "runTaskQueue"
       THEN /\ uncaught' = Some(<<"Cannot read properties of undefined", "idleTaskList">>)
            /\ UNCHANGED invoked
       ELSE /\ invoked' = Append(invoked, entry.callback)
            /\ uncaught' = None
    /\ UNCHANGED <<discrepancyVars, idleTaskList, taskHandle, handles, timers>>

\* A timeout of scheduleIdleTask expires: its function () => { callback; }
\* calls nothing.
TimeoutExpires ==
    /\ timers > 0
    /\ timers' = timers - 1
    /\ uncaught' = None
    /\ UNCHANGED <<discrepancyVars, idleTaskList, taskHandle, handles, idleCallbacks, invoked>>

SchedulerNext ==
    \/ \E task \in Tasks : EnqueueTask(task)
    \/ \E passes \in 0..MaxTasks, didTimeout \in BOOLEAN : RunTaskQueue(passes, didTimeout)
    \/ \E callback \in Tasks, inWindow \in BOOLEAN : ScheduleIdleTask(callback, inWindow)
    \/ \E entry \in idleCallbacks : IdleCallbackRuns(entry)
    \/ TimeoutExpires

SchedulerSpec == SchedulerInit /\ [][SchedulerNext]_vars

-----------------------------------------------------------------------------
(* What the specification says of schemas, stated apart from the code *)

\* The three variants of a node schema, and the kind of each.
WellFormedNode(node) ==
    node.class \in {"LeafNodeStoredSchema", "MapNodeStoredSchema", "ObjectNodeStoredSchema"}

WellFormed(schema) ==
    \A i \in DOMAIN schema.nodeSchema : WellFormedNode(schema.nodeSchema[i].value)

KindOf(node) ==
    CASE node.class = "LeafNodeStoredSchema" -> "leaf"
      [] node.class = "MapNodeStoredSchema" -> "map"
      [] node.class = "ObjectNodeStoredSchema" -> "object"

\* Two field schemas with the same kind and the same allowed types; undefined
\* is the same as undefined only.
SameField(f, g) ==
    /\ f.kind = g.kind
    /\ (f.types = None) = (g.types = None)
    /\ f.types # None /\ g.types # None => Range(f.types[1]) = Range(g.types[1])

\* Two well-formed node schemas of the same kind and contents.
SameNode(n, m) ==
    /\ n.class = m.class
    /\ n.class = "LeafNodeStoredSchema" => n.leafValue = m.leafValue
    /\ n.class = "MapNodeStoredSchema" => SameField(n.mapFields, m.mapFields)
    /\ n.class = "ObjectNodeStoredSchema" =>
          /\ MapKeys(n.objectNodeFields) = MapKeys(m.objectNodeFields)
          /\ \A k \in MapKeys(n.objectNodeFields) :
                SameField(MapGet(n.objectNodeFields, k), MapGet(m.objectNodeFields, k))

StructurallyCompatible(a, b) ==
    /\ SameField(a.rootFieldSchema, b.rootFieldSchema)
    /\ MapKeys(a.nodeSchema) = MapKeys(b.nodeSchema)
    /\ \A k \in MapKeys(a.nodeSchema) :
          SameNode(MapGet(a.nodeSchema, k), MapGet(b.nodeSchema, k))

\* The top-level records of the list that carry the identifier k.
RecordsFor(k) == SelectSeq(incompatibilities, LAMBDA r : r.identifier = Some(k))

\* The records of the list with the given mismatch.
RecordsOf(mismatch) == SelectSeq(incompatibilities, LAMBDA r : r.mismatch = mismatch)

NoRepeats(s) == Cardinality(Range(s)) = Len(s)

-----------------------------------------------------------------------------
(* Claims on getAllowedContentIncompatibilities, under Spec *)

\* C1: for a well-formed schema and itself, or a structurally identical clone
\* of it (the same root field, identifiers, kinds and contents, in any
\* insertion order), the call throws nothing and its list stays empty.
C1_IdenticalSchemasGiveEmptyList ==
    (pc \in {"root", "view", "stored", "done", "thrown"}
        /\ WellFormed(view) /\ StructurallyCompatible(view, stored))
    => (incompatibilities = <<>> /\ pc # "thrown")

\* C1 witness: a call on two different schema objects that are structurally
\* identical, with a map node and an object node with a field, has returned
\* the empty list.
C1_Witness ==
    /\ pc = "done"
    /\ WellFormed(view)
    /\ StructurallyCompatible(view, stored)
    /\ view # stored
    /\ \E i \in DOMAIN view.nodeSchema :
          /\ view.nodeSchema[i].value.class = "ObjectNodeStoredSchema"
          /\ Len(view.nodeSchema[i].value.objectNodeFields) > 0
    /\ \E i \in DOMAIN view.nodeSchema :
          view.nodeSchema[i].value.class = "MapNodeStoredSchema"
    /\ incompatibilities = <<>>

\* C2: for well-formed schemas, a returned empty list means that view and
\* stored are structurally compatible, types = undefined being different from
\* every set, the empty one included.
C2_EmptyListMeansCompatible ==
    (pc = "done" /\ WellFormed(view) /\ WellFormed(stored) /\ incompatibilities = <<>>)
    => StructurallyCompatible(view, stored)

\* C3: a node schema entry that is none of leaf, map, object, in view or in
\* stored, makes the call throw: it never returns a list.
C3_ForeignNodeIsFatal ==
    pc = "done" => (WellFormed(view) /\ WellFormed(stored))

\* C4: in the returned list, an identifier of view.nodeSchema that
\* stored.nodeSchema lacks has exactly one record, the nodeKind record with the
\* kind of the view entry and stored undefined; an identifier found only in
\* stored.nodeSchema, with a leaf, map or object entry, has exactly one record,
\* the nodeKind record with view undefined and the kind of the stored entry.
C4_OneSidedNodeHasOneNodeKindRecord ==
    pc = "done" =>
        /\ \A k \in MapKeys(view.nodeSchema) \ MapKeys(stored.nodeSchema) :
              RecordsFor(k) =
                 <<[identifier |-> Some(k), mismatch |-> "nodeKind",
                    view |-> Some(KindOf(MapGet(view.nodeSchema, k))), stored |-> None]>>
        /\ \A k \in MapKeys(stored.nodeSchema) \ MapKeys(view.nodeSchema) :
              WellFormedNode(MapGet(stored.nodeSchema, k)) =>
                 RecordsFor(k) =
                    <<[identifier |-> Some(k), mismatch |-> "nodeKind",
                       view |-> None, stored |-> Some(KindOf(MapGet(stored.nodeSchema, k)))]>>

\* C4 witness: a call has returned for a view with a map node that stored lacks
\* and a stored with an object node that view lacks.
C4_Witness ==
    /\ pc = "done"
    /\ \E k \in MapKeys(view.nodeSchema) \ MapKeys(stored.nodeSchema) :
          MapGet(view.nodeSchema, k).class = "MapNodeStoredSchema"
    /\ \E k \in MapKeys(stored.nodeSchema) \ MapKeys(view.nodeSchema) :
          MapGet(stored.nodeSchema, k).class = "ObjectNodeStoredSchema"
    /\ Len(RecordsOf("nodeKind")) = 2

\* C5: in the returned list, an identifier with entries of different kinds in
\* the two schemas has exactly one record, the nodeKind record with both kinds:
\* no fields, valueSchema, allowedTypes or fieldKind record for it.
C5_KindMismatchHasOnlyTheNodeKindRecord ==
    pc = "done" =>
        \A k \in MapKeys(view.nodeSchema) \cap MapKeys(stored.nodeSchema) :
            LET v == MapGet(view.nodeSchema, k)
                s == MapGet(stored.nodeSchema, k)
            IN  (WellFormedNode(v) /\ WellFormedNode(s) /\ KindOf(v) # KindOf(s)) =>
                    RecordsFor(k) =
                       <<[identifier |-> Some(k), mismatch |-> "nodeKind",
                          view |-> Some(KindOf(v)), stored |-> Some(KindOf(s))]>>

\* C5 witness: a call has returned for a leaf node in view whose identifier
\* names a map node in stored, and for an object node with a field in view
\* whose identifier names a leaf node in stored.
C5_Witness ==
    /\ pc = "done"
    /\ \E k \in MapKeys(view.nodeSchema) \cap MapKeys(stored.nodeSchema) :
          /\ MapGet(view.nodeSchema, k).class = "LeafNodeStoredSchema"
          /\ MapGet(stored.nodeSchema, k).class = "MapNodeStoredSchema"
    /\ \E k \in MapKeys(view.nodeSchema) \cap MapKeys(stored.nodeSchema) :
          /\ MapGet(view.nodeSchema, k).class = "ObjectNodeStoredSchema"
          /\ Len(MapGet(view.nodeSchema, k).objectNodeFields) > 0
          /\ MapGet(stored.nodeSchema, k).class = "LeafNodeStoredSchema"

\* The place of a record in the order the documentation gives: 0 for the root,
\* then the identifiers of view.nodeSchema in its order, then the identifiers
\* of stored.nodeSchema that view.nodeSchema lacks, in the order of stored.
PlaceOf(r) ==
    IF r.identifier = None
    THEN 0
    ELSE LET k == r.identifier[1]
         IN  IF MapHas(view.nodeSchema, k)
             THEN CHOOSE i \in DOMAIN view.nodeSchema : view.nodeSchema[i].key = k
             ELSE Len(view.nodeSchema)
                     + (CHOOSE i \in DOMAIN stored.nodeSchema : stored.nodeSchema[i].key = k)

\* C10: the list is in three consecutive segments: the records of the root
\* field, then those of the identifiers of view.nodeSchema in its iteration
\* order, then those of the identifiers only stored.nodeSchema has, in its
\* iteration order; no record comes before a record of an earlier place.
C10_RootThenViewThenStoredOnly ==
    pc \in {"root", "view", "stored", "done", "thrown"} =>
        \A i, j \in DOMAIN incompatibilities :
            i < j => PlaceOf(incompatibilities[i]) <= PlaceOf(incompatibilities[j])

\* C10 witness: a returned list with two root records, a record of a view
\* identifier and a record of an identifier only stored has; stored lists the
\* view identifier after the other one.
C10_Witness ==
    /\ pc = "done"
    /\ Len(incompatibilities) >= 4
    /\ Len(SelectSeq(incompatibilities, LAMBDA r : r.identifier = None)) = 2
    /\ \E k \in MapKeys(view.nodeSchema) : Len(RecordsFor(k)) > 0
    /\ \E k \in MapKeys(stored.nodeSchema) \ MapKeys(view.nodeSchema) : Len(RecordsFor(k)) > 0
    /\ Len(stored.nodeSchema) = 2
    /\ MapHas(view.nodeSchema, stored.nodeSchema[2].key)

\* C11: once the root comparison is made, whatever the node schemas hold, the
\* records without identifier are a prefix of the list, and this prefix is what
\* the field comparator gives for the two root field schemas, so it is a
\* function of the two root field schemas alone.
C11_RootRecordsAreThePrefix ==
    pc \in {"view", "stored", "done", "thrown"} =>
        LET root == trackFieldDiscrepancies(view.rootFieldSchema, stored.rootFieldSchema, None)
        IN  /\ Len(incompatibilities) >= Len(root)
            /\ SubSeq(incompatibilities, 1, Len(root)) = root
            /\ \A i \in DOMAIN incompatibilities :
                  incompatibilities[i].identifier = None <=> i <= Len(root)

\* C11 witness: a returned list whose first two records are those of the root
\* and whose further records are those of node schemas.
C11_Witness ==
    /\ pc = "done"
    /\ Len(trackFieldDiscrepancies(view.rootFieldSchema, stored.rootFieldSchema, None)) = 2
    /\ Len(incompatibilities) > 3
    /\ Len(view.nodeSchema) = 2

\* C12: a step of the call pushes records without identifier if and only if it
\* is the root comparison: every record pushed by the walk over view.nodeSchema
\* or by the residual pass has an identifier, and so has every record nested in
\* the differences of a fields record; no step changes the records already there.
C12_UndefinedIdentifierOnlyFromRoot ==
    [][LET old == Len(incompatibilities)
       IN  /\ Len(incompatibilities') >= old
           /\ SubSeq(incompatibilities', 1, old) = incompatibilities
           /\ \A i \in (old + 1)..Len(incompatibilities') :
                 LET r == incompatibilities'[i]
                 IN  /\ r.identifier = None <=> pc = "root"
                     /\ r.mismatch = "fields" =>
                           \A j \in DOMAIN r.differences : r.differences[j].identifier # None
      ]_vars

\* C12 witness: a returned list with a root record, the two records of a map
\* node and a fields record of an object node.
C12_Witness ==
    /\ pc = "done"
    /\ \E i \in DOMAIN incompatibilities : incompatibilities[i].identifier = None
    /\ \E k \in NodeIds :
          /\ MapHas(view.nodeSchema, k)
          /\ MapGet(view.nodeSchema, k).class = "MapNodeStoredSchema"
          /\ Len(RecordsFor(k)) = 2
    /\ Len(RecordsOf("fields")) = 1

\* C14: on well-formed schemas the call throws nothing, neither the TypeError
\* of an unsupported node type nor a failed assertion, whatever identifiers are
\* missing and whatever kinds, types and values differ.
C14_WellFormedInputsNeverThrow ==
    (pc \in {"root", "view", "stored", "done", "thrown"}
        /\ WellFormed(view) /\ WellFormed(stored))
    => (pc # "thrown" /\ error = None)

\* C14 witness: a call on well-formed schemas has returned a list with a
\* nodeKind record of a missing identifier, one of a kind mismatch, and the two
\* records of differing root field schemas.
C14_Witness ==
    /\ pc = "done"
    /\ WellFormed(view)
    /\ WellFormed(stored)
    /\ \E k \in MapKeys(view.nodeSchema) \ MapKeys(stored.nodeSchema) : Len(RecordsFor(k)) = 1
    /\ \E k \in MapKeys(view.nodeSchema) \cap MapKeys(stored.nodeSchema) :
          MapGet(view.nodeSchema, k).class # MapGet(stored.nodeSchema, k).class
    /\ Len(incompatibilities) = 4

BothOf(class) ==
    {k \in MapKeys(view.nodeSchema) \cap MapKeys(stored.nodeSchema) :
        /\ MapGet(view.nodeSchema, k).class = class
        /\ MapGet(stored.nodeSchema, k).class = class}

\* C18: in the returned list, an identifier that names an object node in both
\* schemas has exactly one record, a fields record with the differences of the
\* object comparator, when the comparator finds a difference, and no record when
\* it finds none; no fields record of the list has an empty differences list.
C18_OneFieldsRecordIffDifferences ==
    pc = "done" =>
        /\ \A k \in BothOf("ObjectNodeStoredSchema") :
              LET differences == trackObjectNodeDiscrepancies(
                                     MapGet(view.nodeSchema, k), MapGet(stored.nodeSchema, k))
              IN  IF Len(differences) > 0
                  THEN RecordsFor(k) = <<[identifier |-> Some(k), mismatch |-> "fields",
                                          differences |-> differences]>>
                  ELSE RecordsFor(k) = <<>>
        /\ \A i \in DOMAIN incompatibilities :
              incompatibilities[i].mismatch = "fields" =>
                  Len(incompatibilities[i].differences) > 0

\* C18 witness: a call has returned for two object nodes named in both schemas,
\* one with a fields record and one, with a field, without any record.
C18_Witness ==
    /\ pc = "done"
    /\ \E k \in BothOf("ObjectNodeStoredSchema") : Len(RecordsFor(k)) = 1
    /\ \E k \in BothOf("ObjectNodeStoredSchema") :
          /\ Len(MapGet(view.nodeSchema, k).objectNodeFields) > 0
          /\ RecordsFor(k) = <<>>

\* C19: in the returned list, the records of an identifier that names a map node
\* in both schemas are those of the field comparator on the two mapFields, given
\* the identifier of the node: at most two, top-level allowedTypes and fieldKind
\* records in that order, none of them a fields record, and none at all when the
\* two mapFields are equal.
C19_MapRecordsAreTheFieldRecords ==
    pc = "done" =>
        \A k \in BothOf("MapNodeStoredSchema") :
            LET v == MapGet(view.nodeSchema, k).mapFields
                s == MapGet(stored.nodeSchema, k).mapFields
            IN  /\ RecordsFor(k) = trackFieldDiscrepancies(v, s, Some(k))
                /\ Len(RecordsFor(k)) <= 2
                /\ \A i \in DOMAIN RecordsFor(k) :
                      RecordsFor(k)[i].mismatch \in {"allowedTypes", "fieldKind"}
                /\ Len(RecordsFor(k)) = 2 =>
                      /\ RecordsFor(k)[1].mismatch = "allowedTypes"
                      /\ RecordsFor(k)[2].mismatch = "fieldKind"
                /\ v = s => RecordsFor(k) = <<>>

\* C19 witness: a call has returned for two map nodes named in both schemas, one
\* with an allowedTypes and a fieldKind record and one with equal mapFields.
C19_Witness ==
    /\ pc = "done"
    /\ \E k \in BothOf("MapNodeStoredSchema") : Len(RecordsFor(k)) = 2
    /\ \E k \in BothOf("MapNodeStoredSchema") :
          MapGet(view.nodeSchema, k).mapFields = MapGet(stored.nodeSchema, k).mapFields

\* C20: in the returned list, an identifier that names a leaf node in both
\* schemas has exactly one record, the valueSchema record with the leafValue of
\* view and the leafValue of stored, when the two differ, and no record when
\* they are equal.
C20_OneValueSchemaRecordIffValuesDiffer ==
    pc = "done" =>
        \A k \in BothOf("LeafNodeStoredSchema") :
            LET v == MapGet(view.nodeSchema, k).leafValue
                s == MapGet(stored.nodeSchema, k).leafValue
            IN  IF v # s
                THEN RecordsFor(k) = <<[identifier |-> Some(k), mismatch |-> "valueSchema",
                                        view |-> Some(v), stored |-> Some(s)]>>
                ELSE RecordsFor(k) = <<>>

\* C20 witness: a call has returned for two leaf nodes named in both schemas,
\* one with different values and a valueSchema record, one with equal values.
C20_Witness ==
    /\ pc = "done"
    /\ \E k \in BothOf("LeafNodeStoredSchema") :
          /\ Len(RecordsFor(k)) = 1
          /\ RecordsFor(k)[1].mismatch = "valueSchema"
    /\ \E k \in BothOf("LeafNodeStoredSchema") :
          MapGet(view.nodeSchema, k).leafValue = MapGet(stored.nodeSchema, k).leafValue

\* C23: no loop makes more passes than its map has entries, and every call
\* comes to its end: it returns its list, or it throws the error of the
\* unsupported node schema variant.
C23_EveryCallTerminates ==
    /\ [](vi - 1 <= Len(view.nodeSchema) /\ si - 1 <= Len(stored.nodeSchema))
    /\ <>(\/ pc = "done"
          \/ /\ pc = "thrown"
             /\ error # None
             /\ error[1][1] = "Unsupported node stored schema type")

\* C23 witness: a call on schemas of two nodes each has returned after two
\* passes of each loop.
C23_Witness ==
    /\ pc = "done"
    /\ vi - 1 = Len(view.nodeSchema)
    /\ si - 1 = Len(stored.nodeSchema)
    /\ Len(view.nodeSchema) = Cardinality(NodeIds)
    /\ Len(stored.nodeSchema) = Cardinality(NodeIds)

\* Two records that are the same field record.
SameFieldRecord(r, q) == r.mismatch = q.mismatch /\ r = q

\* Two lists that hold the same records the same number of times, under the
\* given sameness of records.
SameMultiset(x, y, Same(_, _)) ==
    /\ Len(x) = Len(y)
    /\ \A i \in DOMAIN x :
          Cardinality({j \in DOMAIN x : Same(x[j], x[i])})
             = Cardinality({j \in DOMAIN y : Same(y[j], x[i])})

\* Two records that are the same, the differences of a fields record being a
\* multiset.
SameRecord(r, q) ==
    /\ r.mismatch = q.mismatch
    /\ IF r.mismatch = "fields"
       THEN /\ r.identifier = q.identifier
            /\ SameMultiset(r.differences, q.differences, SameFieldRecord)
       ELSE r = q

\* A field record with its view and stored members exchanged.
MirroredField(r) == [r EXCEPT !.view = r.stored, !.stored = r.view]

\* A record with its view and stored members exchanged, those of its field
\* differences included.
Mirrored(r) ==
    IF r.mismatch = "fields"
    THEN [r EXCEPT !.differences = [i \in DOMAIN @ |-> MirroredField(@[i])]]
    ELSE MirroredField(r)

\* C24: for well-formed schemas, the records returned for (stored, view) are, as
\* a multiset, the records returned for (view, stored) with the view and stored
\* members of each exchanged, in the field differences of a fields record too.
C24_SwappedArgumentsMirrorTheRecords ==
    (pc = "done" /\ WellFormed(view) /\ WellFormed(stored)) =>
        LET swapped == getAllowedContentIncompatibilities(stored, view)
        IN  /\ swapped.throw = None
            /\ SameMultiset([i \in DOMAIN swapped.push |-> Mirrored(swapped.push[i])],
                            incompatibilities, SameRecord)

\* C24 witness: a call on well-formed schemas has returned an allowedTypes
\* record, a fields record, and the nodeKind record of a node only stored has.
C24_Witness ==
    /\ pc = "done"
    /\ WellFormed(view)
    /\ WellFormed(stored)
    /\ Len(RecordsOf("allowedTypes")) > 0
    /\ Len(RecordsOf("fields")) > 0
    /\ \E i \in DOMAIN incompatibilities :
          /\ incompatibilities[i].mismatch = "nodeKind"
          /\ incompatibilities[i].view = None

\* A record that reports a difference: two type lists without a common type
\* and not both empty, or a view and a stored that differ (and so are not both
\* undefined).
ReportsADifference(r) ==
    IF r.mismatch = "allowedTypes"
    THEN /\ Range(r.view) \cap Range(r.stored) = {}
         /\ Len(r.view) > 0 \/ Len(r.stored) > 0
    ELSE /\ r.view # r.stored
         /\ ~(r.view = None /\ r.stored = None)

FieldKeysOf(schema) ==
    UNION {MapKeys(schema.nodeSchema[i].value.objectNodeFields) :
              i \in {j \in DOMAIN schema.nodeSchema :
                        schema.nodeSchema[j].value.class = "ObjectNodeStoredSchema"}}

OnlyNode(schema, k) ==
    [rootFieldSchema |-> [kind |-> "optional", types |-> None],
     nodeSchema |-> SelectSeq(schema.nodeSchema, LAMBDA entry : entry.key = k)]

\* C27: for well-formed schemas, the records returned for an identifier k are
\* those returned for k by the call on two schemas that hold the entries of k
\* only: every call that agrees on k with this one returns the same records
\* for k, whatever its root field schemas and its other nodes.
C27_RecordsOfANodeDependOnItsEntries ==
    (pc = "done" /\ WellFormed(view) /\ WellFormed(stored)) =>
        \A k \in NodeIds :
            RecordsFor(k) =
                SelectSeq(getAllowedContentIncompatibilities(
                              OnlyNode(view, k), OnlyNode(stored, k)).push,
                          LAMBDA r : r.identifier = Some(k))

\* C27 witness: a call on well-formed schemas with different root field schemas
\* and two nodes each has returned records for each of two identifiers, one of
\* them absent from view.
C27_Witness ==
    /\ pc = "done"
    /\ WellFormed(view)
    /\ WellFormed(stored)
    /\ Len(RecordsOf("fieldKind")) > 0
    /\ Len(stored.nodeSchema) = Cardinality(NodeIds)
    /\ \A k \in NodeIds : Len(RecordsFor(k)) > 0
    /\ \E k \in NodeIds : ~MapHas(view.nodeSchema, k)

\* The node-level records of the list for the identifier k.
NodeLevelRecordsFor(k) ==
    SelectSeq(RecordsFor(k), LAMBDA r : r.mismatch \in {"nodeKind", "fields", "valueSchema"})

\* C28: for well-formed schemas, the returned list has at most one node-level
\* record (nodeKind, fields or valueSchema) for an identifier, no record of the
\* second loop (a nodeKind record with view undefined) for an identifier of
\* view.nodeSchema, and at most 2 + 2 * n top-level records, n being the number
\* of identifiers of the two schemas.
C28_OnePassPerIdentifier ==
    (pc = "done" /\ WellFormed(view) /\ WellFormed(stored)) =>
        LET identifiers == MapKeys(view.nodeSchema) \cup MapKeys(stored.nodeSchema)
        IN  /\ \A k \in identifiers : Len(NodeLevelRecordsFor(k)) <= 1
            /\ \A k \in MapKeys(view.nodeSchema) :
                  \A i \in DOMAIN RecordsFor(k) :
                      ~(RecordsFor(k)[i].mismatch = "nodeKind" /\ RecordsFor(k)[i].view = None)
            /\ Len(incompatibilities) <= 2 + 2 * Cardinality(identifiers)

\* C28 witness: a call on well-formed schemas has returned a list of
\* 2 + 2 * n records for n = 2 identifiers, one map node of both schemas with
\* its two field records among them, and one node-level record.
C28_Witness ==
    /\ pc = "done"
    /\ WellFormed(view)
    /\ WellFormed(stored)
    /\ Cardinality(MapKeys(view.nodeSchema) \cup MapKeys(stored.nodeSchema)) = 2
    /\ \E k \in BothOf("MapNodeStoredSchema") : Len(RecordsFor(k)) = 2
    /\ \E k \in NodeIds : Len(NodeLevelRecordsFor(k)) = 1
    /\ Len(incompatibilities) >= 2 + 2 + 1

-----------------------------------------------------------------------------
(* Claims on getAllowedContentIncompatibilities, under ReorderedSpec *)

\* The types of a list in one fixed order: a list of types read as a set.
TypeOrder == <<"a", "b", "c">>

AsTypeSet(types) == SelectSeq(TypeOrder, LAMBDA t : t \in Range(types))

\* A field record with its type lists read as sets.
FieldRecordUpToOrder(r) ==
    IF r.mismatch = "allowedTypes"
    THEN [r EXCEPT !.view = AsTypeSet(@), !.stored = AsTypeSet(@)]
    ELSE r

\* A record with its type lists read as sets, those of its field differences
\* included.
RecordUpToOrder(r) ==
    IF r.mismatch = "fields"
    THEN [r EXCEPT !.differences = [i \in DOMAIN @ |-> FieldRecordUpToOrder(@[i])]]
    ELSE FieldRecordUpToOrder(r)

\* Two lists that are the same up to the order of their records, of the
\* differences of their fields records and of their type lists.
SameUpToOrder(x, y) ==
    SameMultiset([i \in DOMAIN x |-> RecordUpToOrder(x[i])],
                 [i \in DOMAIN y |-> RecordUpToOrder(y[i])], SameRecord)

\* The schemas of ReorderedStoredSchemas that are the given schema in another
\* iteration order of its maps and sets, and the one of them taken as the
\* reference order of them all.
Reorderings(schema) ==
    {other \in ReorderedStoredSchemas : StructurallyCompatible(schema, other)}

ReferenceOrder(schema) ==
    CHOOSE other \in ReorderedStoredSchemas : StructurallyCompatible(schema, other)

\* C22: the list returned for two well-formed schemas is, up to the order of
\* its records, of the differences of its fields records and of the types of
\* its allowedTypes records, the list returned for the same two schemas given
\* in the reference iteration order of their node maps, field maps and type
\* sets; every order being an input, all orders give the same list up to order.
C22_OrderOfIterationOnlyOrdersTheRecords ==
    pc = "done" =>
        LET other == getAllowedContentIncompatibilities(ReferenceOrder(view),
                                                        ReferenceOrder(stored))
        IN  /\ other.throw = None
            /\ SameUpToOrder(other.push, incompatibilities)

\* C22 witness: a call has returned a list that the same schemas in another
\* iteration order give in another order of records, with an allowedTypes
\* record of two types.
C22_Witness ==
    /\ pc = "done"
    /\ \E i \in DOMAIN incompatibilities :
          /\ incompatibilities[i].mismatch = "allowedTypes"
          /\ Len(incompatibilities[i].view) = 2
    /\ \E v \in Reorderings(view), s \in Reorderings(stored) :
          LET other == getAllowedContentIncompatibilities(v, s).push
          IN  /\ other # incompatibilities
              /\ \E i, j \in DOMAIN other :
                    /\ i < j
                    /\ other[i].identifier # other[j].identifier
                    /\ \E m, n \in DOMAIN incompatibilities :
                          /\ n < m
                          /\ incompatibilities[m] = other[i]
                          /\ incompatibilities[n] = other[j]

-----------------------------------------------------------------------------
(* Claims on trackFieldDiscrepancies, under FieldSpec *)

C7_UndefinedAgainstDefinedTypes ==
    pc = "fieldDone" =>
        LET records == RecordsOf("allowedTypes")
        IN  /\ (view.types = None /\ stored.types # None) =>
                  /\ \A i \in DOMAIN records :
                        records[i].view = <<>> /\ records[i].stored = stored.types[1]
                  /\ stored.types[1] # <<>> => Len(records) = 1
            /\ (view.types # None /\ stored.types = None) =>
                  /\ \A i \in DOMAIN records :
                        records[i].view = view.types[1] /\ records[i].stored = <<>>
                  /\ view.types[1] # <<>> => Len(records) = 1
            /\ (view.types = None /\ stored.types = None) => Len(records) = 0

\* C7 witness: the comparator has compared types = undefined in view with a
\* set of two types in stored.
C7_Witness ==
    /\ pc = "fieldDone"
    /\ view.types = None
    /\ stored.types # None
    /\ Len(stored.types[1]) = 2
    /\ Len(RecordsOf("allowedTypes")) = 1

\* C8: comparing types = undefined with the empty set, the kinds being the
\* same, does not give what comparing undefined with undefined gives: the two
\* field schemas are reported to differ.
C8_UndefinedIsNotTheEmptySet ==
    (pc = "fieldDone" /\ view.kind = stored.kind
        /\ \/ view.types = None /\ stored.types = Some(<<>>)
           \/ view.types = Some(<<>>) /\ stored.types = None)
    => incompatibilities #
          trackFieldDiscrepancies([kind |-> view.kind, types |-> None],
                                  [kind |-> stored.kind, types |-> None], keyOrRoot)

\* C9: there is a fieldKind record if and only if view.kind differs from
\* stored.kind, whatever the allowed types are, there is at most one, and it
\* carries the two kinds and the identifier the comparator was called with.
C9_FieldKindRecordIffKindsDiffer ==
    pc = "fieldDone" =>
        LET records == RecordsOf("fieldKind")
        IN  /\ Len(records) = (IF view.kind # stored.kind THEN 1 ELSE 0)
            /\ \A i \in DOMAIN records :
                  records[i] = [identifier |-> keyOrRoot, mismatch |-> "fieldKind",
                                view |-> Some(view.kind), stored |-> Some(stored.kind)]

\* C9 witness: the comparator was called with an identifier on field schemas
\* of different kinds and equal allowed types, and returned one record.
C9_Witness ==
    /\ pc = "fieldDone"
    /\ keyOrRoot # None
    /\ view.kind # stored.kind
    /\ view.types = stored.types
    /\ view.types # None
    /\ Len(incompatibilities) = 1

\* C17: a call of the field comparator returns at most two records: at most one
\* allowedTypes record, at most one fieldKind record, no record of another
\* mismatch, the allowedTypes record before the fieldKind record when both are
\* there, and each with the identifier the call was given.
C17_AtMostTwoRecordsInOrder ==
    pc = "fieldDone" =>
        /\ Len(incompatibilities) <= 2
        /\ Len(RecordsOf("allowedTypes")) <= 1
        /\ Len(RecordsOf("fieldKind")) <= 1
        /\ \A i \in DOMAIN incompatibilities :
              /\ incompatibilities[i].mismatch \in {"allowedTypes", "fieldKind"}
              /\ incompatibilities[i].identifier = keyOrRoot
        /\ Len(incompatibilities) = 2 =>
              /\ incompatibilities[1].mismatch = "allowedTypes"
              /\ incompatibilities[2].mismatch = "fieldKind"

\* C17 witness: a call given a node identifier has returned two records.
C17_Witness ==
    /\ pc = "fieldDone"
    /\ keyOrRoot # None
    /\ Len(incompatibilities) = 2

-----------------------------------------------------------------------------
(* Claims on trackObjectNodeDiscrepancies, under ObjectSpec *)

\* C13: the differences of two object nodes hold, for a field key only view
\* has, exactly one record, the fieldKind record with the kind of the view field
\* and stored undefined; for a key only stored has, exactly one record, the
\* fieldKind record with view undefined and the kind of the stored field; for a
\* key both have, exactly the records of the field comparator on the two field
\* schemas with that key, none when the two are identical; and no other record.
C13_ObjectFieldDifferences ==
    pc = "objectDone" =>
        LET V == view.objectNodeFields
            S == stored.objectNodeFields
        IN  /\ \A k \in MapKeys(V) \ MapKeys(S) :
                  RecordsFor(k) = <<[identifier |-> Some(k), mismatch |-> "fieldKind",
                                     view |-> Some(MapGet(V, k).kind), stored |-> None]>>
            /\ \A k \in MapKeys(S) \ MapKeys(V) :
                  RecordsFor(k) = <<[identifier |-> Some(k), mismatch |-> "fieldKind",
                                     view |-> None, stored |-> Some(MapGet(S, k).kind)]>>
            /\ \A k \in MapKeys(V) \cap MapKeys(S) :
                  /\ RecordsFor(k) = trackFieldDiscrepancies(MapGet(V, k), MapGet(S, k), Some(k))
                  /\ MapGet(V, k) = MapGet(S, k) => RecordsFor(k) = <<>>
            /\ \A i \in DOMAIN incompatibilities :
                  /\ incompatibilities[i].identifier # None
                  /\ incompatibilities[i].identifier[1] \in MapKeys(V) \cup MapKeys(S)

\* C13 witness: the comparator has compared two object nodes of two fields
\* each, with one key in common whose field schemas are identical, and
\* returned the two fieldKind records of the other two keys.
C13_Witness ==
    /\ pc = "objectDone"
    /\ Len(view.objectNodeFields) = 2
    /\ Len(stored.objectNodeFields) = 2
    /\ \E k \in MapKeys(view.objectNodeFields) \cap MapKeys(stored.objectNodeFields) :
          /\ MapKeys(view.objectNodeFields) \cap MapKeys(stored.objectNodeFields) = {k}
          /\ MapGet(view.objectNodeFields, k) = MapGet(stored.objectNodeFields, k)
    /\ Len(incompatibilities) = 2

\* The place of a field key in the order the documentation gives for the
\* differences of two object nodes: the keys of view.objectNodeFields in its
\* order, then the keys only stored.objectNodeFields has, in the order of stored.
FieldPlaceOf(k) ==
    IF MapHas(view.objectNodeFields, k)
    THEN CHOOSE i \in DOMAIN view.objectNodeFields : view.objectNodeFields[i].key = k
    ELSE Len(view.objectNodeFields)
            + (CHOOSE i \in DOMAIN stored.objectNodeFields :
                  stored.objectNodeFields[i].key = k)

\* C21: in the differences of two object nodes, the records of the keys of
\* view.objectNodeFields come in the order of view.objectNodeFields and before
\* every record of a key only stored.objectNodeFields has, and these come in the
\* order of stored.objectNodeFields.
C21_ViewKeysThenStoredOnlyKeys ==
    pc = "objectDone" =>
        \A i, j \in DOMAIN incompatibilities :
            i < j => FieldPlaceOf(incompatibilities[i].identifier[1])
                        <= FieldPlaceOf(incompatibilities[j].identifier[1])

\* C21 witness: the comparator has returned records for two keys of view, one
\* of them absent from stored, and then a record for a key only stored has.
C21_Witness ==
    /\ pc = "objectDone"
    /\ Len(view.objectNodeFields) = 2
    /\ \A k \in MapKeys(view.objectNodeFields) : Len(RecordsFor(k)) > 0
    /\ MapKeys(view.objectNodeFields) \cap MapKeys(stored.objectNodeFields) # {}
    /\ \E k \in MapKeys(stored.objectNodeFields) \ MapKeys(view.objectNodeFields) :
          incompatibilities[Len(incompatibilities)].identifier = Some(k)

-----------------------------------------------------------------------------
(* Claims on invocations in progress at once, under ConcSpec *)

\* C16: however the passes of the invocations on the shared schemas are
\* interleaved, an invocation that has returned has returned the list it
\* returns when it runs alone on its arguments, and one that has thrown has
\* thrown the error it throws alone.
C16_InterleavedResultIsTheResultAlone ==
    \A i \in Invocations :
        LET alone == getAllowedContentIncompatibilities(ViewOf(i), StoredOf(i))
        IN  /\ pc[i] = "done" =>
                 /\ alone.throw = None
                 /\ incompatibilities[i] = alone.push
            /\ pc[i] = "thrown" =>
                 /\ alone.throw # None
                 /\ error[i] = alone.throw

\* C16 witness: invocation 1 has returned a list with a record of its second
\* loop while invocation 2 is within its first loop, with a record pushed and a
\* set of seen identifiers that is not the set of invocation 1.
C16_Witness ==
    /\ pc[1] = "done"
    /\ \E n \in DOMAIN incompatibilities[1] :
          /\ incompatibilities[1][n].mismatch = "nodeKind"
          /\ incompatibilities[1][n].view = None
    /\ pc[2] = "view"
    /\ vi[2] > 1
    /\ Len(incompatibilities[2]) > 0
    /\ viewNodeKeys[2] # viewNodeKeys[1]

-----------------------------------------------------------------------------
(* Claims on IdleTaskScheduler, under SchedulerSpec *)

\* C29: a call that lengthens idleTaskList puts its task at the tail of the
\* list, and, when no callback was scheduled (taskHandle = 0), leaves taskHandle
\* non-zero and the callback of runTaskQueue with that handle requested of the
\* window.
C29_EnqueueTaskSchedulesACallback ==
    [][Len(idleTaskList') > Len(idleTaskList) =>
          /\ SubSeq(idleTaskList', 1, Len(idleTaskList)) = idleTaskList
          /\ Len(idleTaskList') = Len(idleTaskList) + 1
          /\ taskHandle = 0 =>
                /\ taskHandle' # 0
                /\ RunTaskQueueCallback(taskHandle') \in idleCallbacks']_vars

\* C30: a run of runTaskQueue that removes tasks removes them from the head of
\* idleTaskList and invokes them in the order of the list; it leaves taskHandle
\* the handle of a new callback of runTaskQueue if tasks remain, and 0 if none
\* does.
C30_RunTaskQueueInvokesTheTasksInOrder ==
    [][Len(idleTaskList') < Len(idleTaskList) =>
          LET removed == Len(idleTaskList) - Len(idleTaskList')
          IN  /\ idleTaskList' = SubSeq(idleTaskList, removed + 1, Len(idleTaskList))
              /\ invoked' = invoked \o [i \in 1..removed |-> idleTaskList[i].handle]
              /\ IF Len(idleTaskList') > 0
                 THEN /\ taskHandle' # 0
                      /\ RunTaskQueueCallback(taskHandle') \in idleCallbacks'
                 ELSE taskHandle' = 0]_vars

=============================================================================
